---- MODULE Spec2Model ----
(***************************************************************************)
(* File check-out (lease locks), version chain and the guarded file        *)
(* operations of the workshop API: services/api/app/routers/locks.py and   *)
(* services/api/app/routers/files.py.                                      *)
(*                                                                         *)
(* The metadata store is modelled as tables (sets of rows).  A request     *)
(* handler runs in a slot; each of its steps is one store statement        *)
(* together with the commit that follows it directly, so the statements of *)
(* two handlers interleave as they do under READ COMMITTED.                *)
(***************************************************************************)
EXTENDS Integers, FiniteSets, Sequences, TLC

\* ------------------------------------------------------------------ bounds
MaxTime == 15          \* the clock stops here
MaxLocks == 2          \* lock rows ever inserted
MaxVersions == 2       \* version rows ever inserted
MaxUploads == 2        \* object keys ever issued

\* ------------------------------------------------------- program constants
LEASE_MINUTES == 15

\* ------------------------------------------------------------ input domains
Users == {"u1", "u2"}
Slots == {"r1", "r2"}
\* Each slot serves the requests of one client, authenticated as one user.
UserOf(r) == IF r = "r1" THEN "u1" ELSE "u2"
TickStep == LEASE_MINUTES \div 3
FileIds == {1, 2}
LockIds == 1..MaxLocks
\* File names are <<base, extension>>; the extension "" is no extension.
CreateNames == {<<"a", "pdf">>}
RenameNames == {<<"", "">>, <<"b", "">>, <<"b", "txt">>}
Sizes == {-1, 0, 100}
\* The content digests the clients declare: each client uploads its own bytes.
Hashes == {"h1", "h2"}
HashOf(r) == IF r = "r1" THEN "h1" ELSE "h2"

None == 0              \* SQL NULL / Python None for ids and times
NoTx == 0 - 1          \* the session has no transaction open

\* initiate_upload, line 220: f"files/{file_id}/{upid}/{filename}", upid being
\* a fresh uuid4 (here the next of a counter); the file name part is left out.
ObjectKey(fid, upid) == [file_id |-> fid, upid |-> upid]
NoKey == ObjectKey(None, None)
UploadIds == 1..MaxUploads
ObjectKeys == {ObjectKey(f, n) : f \in FileIds, n \in UploadIds}

VARIABLES now, files, versions, locks, nextFileId, nextVersionId, nextLockId, nextUploadId,
          reqs, helper

vars == <<now, files, versions, locks, nextFileId, nextVersionId, nextLockId, nextUploadId,
         reqs, helper>>
store == <<files, versions, locks, nextFileId, nextVersionId, nextLockId, nextUploadId>>

\* ------------------------------------------------------------------ slots
\* A slot holds one request handler: its inputs, its local variables, the
\* statement it is at (pc), the rows it has appended to audit_log (a table
\* no handler reads), the objects it has removed from the blob service (which
\* no handler reads either) and, once it returned, its response.
IdleReq ==
  [op |-> "none", pc |-> "idle", user |-> "none", fid |-> None, lid |-> None,
   client_id |-> "none", name |-> <<"", "">>, object_key |-> NoKey, size_bytes |-> 0,
   sha256 |-> "", t |-> 0, tx |-> NoTx, existing |-> None, pend |-> None, maxv |-> 0,
   keys |-> {}, removed |-> {}, audit |-> {}, status |-> 0, out |-> [id |-> None]]

Free(r) == reqs[r].pc \in {"idle", "done"}

\* A handler starts in a slot that is not running one.
Begin(r, op, u) == [IdleReq EXCEPT !.op = op, !.user = u, !.t = now, !.tx = now]

\* The handler returns (or raises): the response is recorded, the session is
\* closed (an uncommitted UPDATE is rolled back) and the locals are gone.
Return(q, status, out) ==
  [IdleReq EXCEPT !.op = q.op, !.user = q.user, !.fid = q.fid, !.lid = q.lid,
                  !.client_id = q.client_id,
                  !.existing = q.existing, !.keys = q.keys, !.removed = q.removed,
                  !.audit = q.audit, !.pc = "done",
                  !.status = status, !.out = out]

\* ----------------------------------------------------------------- tables
FileRow(fid) == CHOOSE f \in files : f.id = fid
FileExists(fid) == \E f \in files : f.id = fid
LockRow(lid) == CHOOSE l \in locks : l.id = lid
ActiveLocks(fid) == {l \in locks : l.file_id = fid /\ l.active}
FileVersions(fid) == {v \in versions : v.file_id = fid}

\* UPDATE locks SET active=false WHERE id=:id
Deactivate(lid) == {IF l.id = lid THEN [l EXCEPT !.active = FALSE] ELSE l : l \in locks}

\* A row updated by a transaction that has not committed yet is write-locked:
\* an UPDATE of it by another transaction waits.
RowLocked(lid, r) == \E s \in Slots \ {r} : reqs[s].pend = lid /\ lid # None

\* An uncommitted INSERT that references a file row holds a key-share lock on
\* it: the DELETE of that file row by another transaction waits.
KeyShared(fid, r) == \E s \in Slots \ {r} : reqs[s].pc = "cu_update" /\ reqs[s].fid = fid


\* ------------------------------------------------------------------ clock
Tick ==
  /\ now + TickStep <= MaxTime
  /\ now' = now + TickStep
  /\ UNCHANGED <<store, reqs, helper>>

Init ==
  /\ now = 0
  /\ files = {}
  /\ versions = {}
  /\ locks = {}
  /\ nextFileId = 1
  /\ nextVersionId = 1
  /\ nextLockId = 1
  /\ nextUploadId = 1
  /\ reqs = [r \in Slots |-> IdleReq]
  /\ helper = [pc |-> "watch", init |-> NoKey, size_bytes |-> 0, put |-> {}]

\* ------------------------------------------------------------ lock manager
NoRow == [id |-> None]

\* LockOut(**row): the columns every lock statement returns.
LockOut(l) ==
  [id |-> l.id, file_id |-> l.file_id, locked_by |-> l.locked_by,
   expires_at |-> l.expires_at, active |-> l.active]

\* HTTPException(409, detail={"message": "Locked", ...})
Locked(l) == [message |-> "Locked", locked_by |-> l.locked_by, expires_at |-> l.expires_at]

Detail(msg) == [detail |-> msg]

\* Mutant of HeldByCaller: the expiry is compared with `expires` (now + lease),
\* the other local of the handler, instead of `now`.
HeldByCallerVsExpires(ex, u, t, c) ==
  ex # NoRow /\ ex.expires_at > t + LEASE_MINUTES /\ ex.locked_by = u

\* Mutant of HeldByCaller: the lock is the caller's only under the client tag
\* it was taken with.
HeldByCallerSameTag(ex, u, t, c) ==
  ex # NoRow /\ ex.expires_at > t /\ ex.locked_by = u /\ ex.client_id = c

\* acquire, line 29: the caller already holds the lock that was read; the
\* client tag `c` of the request is not looked at.
HeldByCaller(ex, u, t, c) == ex # NoRow /\ ex.expires_at > t /\ ex.locked_by = u

\* Mutant of Stale: a lock is taken for stale only after its expiry, not at it.
StaleStrict(ex, t) == ex.expires_at < t

\* acquire, line 34, and _ensure_not_locked, line 73: lazy expiry.
Stale(ex, t) == ex.expires_at <= t

\* Mutant of HeldByOther: the comparison of the holders is inverted.
HeldByOtherInverted(ex, u) == ex.locked_by = u

\* acquire, line 38: an unexpired lock of somebody else.
HeldByOther(ex, u) == ex.locked_by # u

\* Mutant of NewLock: the row is not given an id of its own.
NewLockSameId(id, fid, u, t, c, at) ==
  [id |-> 1, file_id |-> fid, locked_by |-> u, locked_at |-> at,
   expires_at |-> t + LEASE_MINUTES, client_id |-> c, active |-> TRUE]

\* The row acquire inserts (lines 42-46); locked_at is the store's now(), the
\* start of the inserting transaction.
NewLock(id, fid, u, t, c, at) ==
  [id |-> id, file_id |-> fid, locked_by |-> u, locked_at |-> at,
   expires_at |-> t + LEASE_MINUTES, client_id |-> c, active |-> TRUE]

\* Handlers that are between their SELECT and their INSERT.
Inserting == {s \in Slots : reqs[s].pc \in {"acq_expire", "acq_insert"}}

\* acquire, lines 18-39: now, the SELECT of an active row of the file (LIMIT 1
\* without ORDER BY: any of them), and the decision taken on it.
AcquireSelect(r, u, f, c) ==
  /\ Free(r)
  /\ \E ex \in (IF ActiveLocks(f) = {} THEN {NoRow} ELSE ActiveLocks(f)) :
       LET q == [Begin(r, "acquire", u) EXCEPT !.fid = f, !.client_id = c,
                                                !.existing = ex.id]
       IN  IF HeldByCaller(ex, u, now, c)
             THEN reqs' = [reqs EXCEPT ![r] = Return(q, 200, LockOut(ex))]
           ELSE IF ex # NoRow /\ ~Stale(ex, now) /\ HeldByOther(ex, u)
             THEN reqs' = [reqs EXCEPT ![r] = Return(q, 409, Locked(ex))]
           ELSE /\ nextLockId + Cardinality(Inserting) <= MaxLocks
                /\ reqs' = [reqs EXCEPT ![r] =
                     [q EXCEPT !.pc = IF ex # NoRow /\ Stale(ex, now)
                                        THEN "acq_expire" ELSE "acq_insert"]]
  /\ UNCHANGED <<now, store>>

\* acquire, lines 35-36: UPDATE locks SET active=false WHERE id=:id; commit.
AcquireExpire(r) ==
  /\ reqs[r].pc = "acq_expire"
  /\ ~RowLocked(reqs[r].existing, r)
  /\ locks' = Deactivate(reqs[r].existing)
  /\ reqs' = [reqs EXCEPT ![r].pc = "acq_insert", ![r].tx = NoTx]
  /\ UNCHANGED <<now, files, versions, nextFileId, nextVersionId, nextLockId, nextUploadId>>

\* _audit.write (lines 15-28), called after the handler's own commit: the
\* INSERT into audit_log and its commit either succeed (ok) or raise, and the
\* exception propagates to the caller of the handler.  The audit write reads
\* and writes no other table, so it is taken in one step with that commit.
Audited(q, ok, out) ==
  IF ok THEN Return(q, 200, out) ELSE Return(q, 500, Detail("audit"))

\* Mutant of Kept: a raising audit write takes the handler's own writes back.
KeptIfAudited(before, after, ok) == IF ok THEN after ELSE before

\* The handlers commit before they call _audit.write (locks.py lines 48-50 and
\* 79-80, files.py lines 136-137, 155-156 and 262-263): a table is as the
\* commit left it, `after` the handler's writes, whether the audit write then
\* succeeds (ok) or raises.
Kept(before, after, ok) == after

\* The row _audit.write inserts (lines 17-18), without its timestamp and meta.
AuditRow(u, action, id) == [user_id |-> u, action |-> action, entity_id |-> id]

\* Mutant of AuditWrite: the row is in audit_log whether the write raised or
\* not.
AuditWriteAnyway(q, ok, action, id) ==
  [q EXCEPT !.audit = q.audit \cup {AuditRow(q.user, action, id)}]

\* The handler q after _audit.write: the row is in audit_log when the write
\* succeeded.
AuditWrite(q, ok, action, id) ==
  IF ok THEN [q EXCEPT !.audit = q.audit \cup {AuditRow(q.user, action, id)}] ELSE q

\* acquire, lines 42-51: INSERT ... RETURNING; commit; audit.  locks.file_id
\* is a foreign key to files.id: the INSERT fails when the file row is gone.
AcquireInsert(r, ok) ==
  /\ reqs[r].pc = "acq_insert"
  /\ LET q == reqs[r]
         at == IF q.tx = NoTx THEN now ELSE q.tx
         row == NewLock(nextLockId, q.fid, q.user, q.t, q.client_id, at)
     IN  IF FileExists(q.fid)
           THEN /\ locks' = Kept(locks, locks \cup {row}, ok)
                /\ nextLockId' = nextLockId + 1
                /\ reqs' = [reqs EXCEPT ![r] =
                     Audited(AuditWrite([q EXCEPT !.lid = row.id], ok, "lock.acquire", row.id),
                             ok, LockOut(row))]
           ELSE /\ ok
                /\ reqs' = [reqs EXCEPT ![r] = Return(q, 500, Detail("IntegrityError"))]
                /\ UNCHANGED <<locks, nextLockId>>
  /\ UNCHANGED <<now, files, versions, nextFileId, nextVersionId, nextUploadId>>


\* Mutant of HeartbeatMatches: the WHERE clause without locked_by = :uid.
HeartbeatAnyHolder(l, lid, u) == l.id = lid /\ l.active

\* heartbeat, line 60: the WHERE clause of the UPDATE.
HeartbeatMatches(l, lid, u) == l.id = lid /\ l.active /\ l.locked_by = u

\* heartbeat, lines 55-67: one UPDATE ... RETURNING, 404 when it matched no
\* row, commit otherwise.
Heartbeat(r, u, lid) ==
  /\ Free(r)
  /\ ~RowLocked(lid, r)
  /\ LET q == [Begin(r, "heartbeat", u) EXCEPT !.lid = lid]
         hit == {l \in locks : HeartbeatMatches(l, lid, u)}
     IN  IF hit = {}
           THEN /\ reqs' = [reqs EXCEPT ![r] = Return(q, 404, Detail("Lock not found"))]
                /\ UNCHANGED locks
           ELSE LET new == [LockRow(lid) EXCEPT !.expires_at = now + LEASE_MINUTES]
                IN  /\ locks' = (locks \ hit) \cup {new}
                    /\ reqs' = [reqs EXCEPT ![r] = Return(q, 200, LockOut(new))]
  /\ UNCHANGED <<now, files, versions, nextFileId, nextVersionId, nextLockId, nextUploadId>>

\* Mutant of ReleaseMatches: the WHERE clause without active = true.
ReleaseInactiveToo(l, lid, u) == l.id = lid /\ l.locked_by = u

\* release, line 73: the WHERE clause of the UPDATE.
ReleaseMatches(l, lid, u) == l.id = lid /\ l.locked_by = u /\ l.active

\* release, lines 71-81: one UPDATE ... RETURNING, 404 when it matched no row,
\* commit and audit otherwise.
Release(r, u, lid, ok) ==
  /\ Free(r)
  /\ ~RowLocked(lid, r)
  /\ LET q == [Begin(r, "release", u) EXCEPT !.lid = lid]
         hit == {l \in locks : ReleaseMatches(l, lid, u)}
     IN  IF hit = {}
           THEN /\ ok
                /\ reqs' = [reqs EXCEPT ![r] = Return(q, 404, Detail("Lock not found"))]
                /\ UNCHANGED locks
           ELSE /\ locks' = Kept(locks, Deactivate(lid), ok)
                /\ reqs' = [reqs EXCEPT ![r] =
                     Audited(AuditWrite(q, ok, "lock.release", lid), ok, [ok |-> TRUE])]
  /\ UNCHANGED <<now, files, versions, nextFileId, nextVersionId, nextLockId, nextUploadId>>

\* ----------------------------------------------------------- conflict guard
\* _ensure_not_locked, lines 61-68: ORDER BY locked_at DESC LIMIT 1.
NewestActive(f) ==
  {l \in ActiveLocks(f) : \A m \in ActiveLocks(f) : m.locked_at <= l.locked_at}

\* Mutant of GuardBlocks: the guard lets everybody through.
GuardBlocksNobody(row, u) == FALSE

\* _ensure_not_locked, line 77.
GuardBlocks(row, u) == row.locked_by # u

\* _ensure_not_locked, lines 59-78, as the first statement of the handler q:
\* the handler goes on at `next`, with the UPDATE of a stale row pending in its
\* transaction (line 74 does not commit), or raises the 409.
EnsureNotLocked(r, q, next) ==
  \E row \in (IF NewestActive(q.fid) = {} THEN {NoRow} ELSE NewestActive(q.fid)) :
    IF row = NoRow
      THEN reqs' = [reqs EXCEPT ![r] = [q EXCEPT !.pc = next]]
    ELSE IF Stale(row, now)
      THEN /\ ~RowLocked(row.id, r)
           /\ reqs' = [reqs EXCEPT ![r] = [q EXCEPT !.pc = next, !.pend = row.id]]
    ELSE IF GuardBlocks(row, q.user)
      THEN reqs' = [reqs EXCEPT ![r] = Return(q, 409, Locked(row))]
    ELSE reqs' = [reqs EXCEPT ![r] = [q EXCEPT !.pc = next]]

\* The handler's commit makes its pending UPDATE of a stale lock row visible.
CommitPending(q, rows) ==
  {IF l.id = q.pend THEN [l EXCEPT !.active = FALSE] ELSE l : l \in rows}

\* ------------------------------------------------------------------- files
FileOut(f) ==
  [id |-> f.id, name |-> f.name, size_bytes |-> f.size_bytes,
   current_version_id |-> f.current_version_id]

\* create_file, lines 180-196: INSERT INTO files ... RETURNING; commit; audit.
\* `id` is the fresh id the store gives the row.
CreateFile(r, u, id, n, ok) ==
  /\ Free(r)
  /\ id = nextFileId
  /\ LET row == [id |-> nextFileId, name |-> n, size_bytes |-> 0,
                 current_version_id |-> None]
     IN  /\ files' = files \cup {row}
         /\ reqs' = [reqs EXCEPT ![r] =
              Audited(AuditWrite([Begin(r, "create_file", u) EXCEPT !.fid = row.id],
                                 ok, "file.create", row.id),
                      ok, FileOut(row))]
  /\ nextFileId' = nextFileId + 1
  /\ UNCHANGED <<now, versions, locks, nextVersionId, nextLockId, nextUploadId>>

\* rename_file, line 113.
common_exts == {"pdf", "doc", "docx", "xls", "xlsx", "csv", "png", "jpg", "jpeg", "gif",
                "webp", "dxf", "nc", "tap", "gcode", "txt", "zip", "rar", "7z"}

\* rename_file, lines 96-127: the name the file gets, <<"", "">> when the
\* request is rejected with 422.  The original extension is kept; an extension
\* given in the request is dropped when it is the original one or a common one.
NewName(old, req) ==
  IF req = <<"", "">> THEN <<"", "">>
  ELSE IF old[2] = "" THEN req
  ELSE IF req[2] = "" \/ req[2] = old[2] \/ req[2] \in common_exts
    THEN (IF req[1] = "" THEN <<"", "">> ELSE <<req[1], old[2]>>)
  ELSE req

\* rename_file, line 84.
RenameGuard(r, u, f, n) ==
  /\ Free(r)
  /\ EnsureNotLocked(r, [Begin(r, "rename", u) EXCEPT !.fid = f, !.name = n], "ren_select")
  /\ UNCHANGED <<now, store>>

\* rename_file, lines 86-127: SELECT the file row, 404 without it, 422 on an
\* invalid name.  Raising closes the session: the pending UPDATE is rolled back.
RenameSelect(r) ==
  /\ reqs[r].pc = "ren_select"
  /\ LET q == reqs[r] IN
       reqs' = [reqs EXCEPT ![r] =
         IF ~FileExists(q.fid) THEN Return(q, 404, Detail("File not found"))
         ELSE IF NewName(FileRow(q.fid).name, q.name) = <<"", "">>
           THEN Return(q, 422, Detail("Invalid name"))
         ELSE [q EXCEPT !.pc = "ren_update", !.name = NewName(FileRow(q.fid).name, q.name)]]
  /\ UNCHANGED <<now, store>>

\* rename_file, lines 129-138: UPDATE files SET name ... RETURNING (.one()
\* raises when the row is gone); commit; audit.
RenameUpdate(r, ok) ==
  /\ reqs[r].pc = "ren_update"
  /\ LET q == reqs[r] IN
       IF FileExists(q.fid)
         THEN LET row == [FileRow(q.fid) EXCEPT !.name = q.name]
              IN  /\ files' = Kept(files, (files \ {FileRow(q.fid)}) \cup {row}, ok)
                  /\ locks' = Kept(locks, CommitPending(q, locks), ok)
                  /\ reqs' = [reqs EXCEPT ![r] =
                       Audited(AuditWrite(q, ok, "file.rename", q.fid), ok, FileOut(row))]
         ELSE /\ ok
              /\ reqs' = [reqs EXCEPT ![r] = Return(q, 500, Detail("NoResultFound"))]
              /\ UNCHANGED <<files, locks>>
  /\ UNCHANGED <<now, versions, nextFileId, nextVersionId, nextLockId, nextUploadId>>

\* delete_file, line 144.
DeleteGuard(r, u, f) ==
  /\ Free(r)
  /\ EnsureNotLocked(r, [Begin(r, "delete", u) EXCEPT !.fid = f], "del_select")
  /\ UNCHANGED <<now, store>>

\* delete_file, lines 146-149.
DeleteSelect(r) ==
  /\ reqs[r].pc = "del_select"
  /\ LET q == reqs[r] IN
       reqs' = [reqs EXCEPT ![r] =
         IF ~FileExists(q.fid) THEN Return(q, 404, Detail("File not found"))
         ELSE [q EXCEPT !.pc = "del_keys"]]
  /\ UNCHANGED <<now, store>>

\* delete_file, lines 151-152: SELECT object_key FROM file_versions WHERE
\* file_id = :fid, the keys of the objects to remove afterwards.
DeleteKeys(r) ==
  /\ reqs[r].pc = "del_keys"
  /\ reqs' = [reqs EXCEPT ![r].pc = "del_delete",
                          ![r].keys = {v.object_key : v \in FileVersions(reqs[r].fid)}]
  /\ UNCHANGED <<now, store>>

\* The rows the store removes with a file row: its versions and its locks.
Cascade(fid, rows) == {x \in rows : x.file_id # fid}

\* Mutant of ObjectCleanup: an object that could not be removed fails the
\* request.
ObjectCleanupRaises(q, failed) ==
  IF failed = {} THEN Return([q EXCEPT !.removed = q.keys], 200, [ok |-> TRUE])
  ELSE Return([q EXCEPT !.removed = q.keys \ failed], 500, Detail("blob"))

\* delete_file, lines 158-170: delete_object for every key read before, each
\* in a try whose except passes (`failed`: the keys whose call raised), and
\* return {"ok": True} whatever happened.
ObjectCleanup(q, failed) == Return([q EXCEPT !.removed = q.keys \ failed], 200, [ok |-> TRUE])

\* delete_file, lines 154-170: DELETE FROM files WHERE id = :fid; commit;
\* audit (which raises when it fails); then the object cleanup.
DeleteCommit(r, ok, failed) ==
  /\ reqs[r].pc = "del_delete"
  /\ ~KeyShared(reqs[r].fid, r)
  /\ failed \subseteq reqs[r].keys
  /\ ~ok => failed = {}
  /\ LET q == reqs[r] IN
       /\ files' = Kept(files, {f \in files : f.id # q.fid}, ok)
       /\ versions' = Kept(versions, Cascade(q.fid, versions), ok)
       /\ locks' = Kept(locks, Cascade(q.fid, CommitPending(q, locks)), ok)
       /\ reqs' = [reqs EXCEPT ![r] =
            IF ok THEN ObjectCleanup(AuditWrite(q, ok, "file.delete", q.fid), failed)
            ELSE Return(q, 500, Detail("audit"))]
  /\ UNCHANGED <<now, nextFileId, nextVersionId, nextLockId, nextUploadId>>

\* ----------------------------------------------------------- version chain
\* Mutant of MaxVersionNo: the query without its MAX, which finds no number.
MaxVersionNoNone(fid) == 0

\* complete_upload, lines 229-235: COALESCE(MAX(version_no), 0) + 1.
MaxVersionNo(fid) ==
  IF FileVersions(fid) = {} THEN 0
  ELSE CHOOSE n \in {v.version_no : v \in FileVersions(fid)} :
         \A v \in FileVersions(fid) : v.version_no <= n

\* file_metadata, lines 200-210: files LEFT JOIN file_versions on the
\* current-version pointer.
FileMetadataOut(f) ==
  LET cur == {v \in versions : v.id = f.current_version_id}
      v == CHOOSE x \in cur : TRUE
  IN  [file_id |-> f.id, current_version_id |-> f.current_version_id,
       version_no |-> IF cur = {} THEN None ELSE v.version_no,
       size_bytes |-> IF cur = {} THEN None ELSE v.size_bytes]

\* Handlers that are between their SELECT MAX and their INSERT.
Appending == {s \in Slots : reqs[s].pc = "cu_insert"}

\* complete_upload, lines 229-235: the first statement of the handler reads
\* the highest version number of the file.  `cap` bounds the version rows
\* there may ever be.
CompleteSelect(r, u, f, k, sz, h, cap) ==
  /\ Free(r)
  /\ nextVersionId + Cardinality(Appending) <= cap
  /\ reqs' = [reqs EXCEPT ![r] =
       [Begin(r, "complete_upload", u) EXCEPT !.fid = f, !.object_key = k, !.size_bytes = sz,
                                              !.sha256 = h, !.maxv = MaxVersionNo(f), !.pc = "cu_insert"]]
  /\ UNCHANGED <<now, store>>

\* complete_upload, lines 238-251: INSERT INTO file_versions ... RETURNING id.
\* The row gets its id and stays in the handler's transaction, unseen by the
\* others.  file_versions.file_id is a foreign key to files.id: the INSERT
\* fails when the file row is gone.
CompleteInsert(r) ==
  /\ reqs[r].pc = "cu_insert"
  /\ LET q == reqs[r] IN
       IF FileExists(q.fid)
         THEN /\ nextVersionId' = nextVersionId + 1
              /\ reqs' = [reqs EXCEPT ![r] = [q EXCEPT !.lid = nextVersionId, !.pc = "cu_update"]]
         ELSE /\ reqs' = [reqs EXCEPT ![r] = Return(q, 500, Detail("IntegrityError"))]
              /\ UNCHANGED nextVersionId
  /\ UNCHANGED <<now, files, versions, locks, nextFileId, nextLockId, nextUploadId>>

\* The version row a handler has inserted in its transaction.
PendingVersion(q) ==
  [id |-> q.lid, file_id |-> q.fid, version_no |-> q.maxv + 1,
   object_key |-> q.object_key, sha256 |-> q.sha256, size_bytes |-> q.size_bytes,
   created_by |-> q.user]

\* Mutant of Appended: the INSERT as an upsert that overwrites the file's
\* record(s) with the new one.
AppendedOver(rows, ver) == {v \in rows : v.file_id # ver.file_id} \cup {ver}

\* complete_upload, lines 238-251: the INSERT adds one row to file_versions and
\* touches no other row of it.
Appended(rows, ver) == rows \cup {ver}

\* Mutant of Pointed: the UPDATE without its size_bytes column.
PointedSizeKept(f, ver_id, size_bytes) == [f EXCEPT !.current_version_id = ver_id]

\* complete_upload, lines 254-260: UPDATE files SET current_version_id =
\* :ver_id, size_bytes = :size_bytes.
Pointed(f, ver_id, size_bytes) ==
  [f EXCEPT !.current_version_id = ver_id, !.size_bytes = size_bytes]

\* Mutant of Committed: the writes of a transaction whose commit failed are
\* visible all the same.
CommittedAnyway(before, after, committed) == after

\* db.commit(): the table as the others see it, `after` the writes of the
\* transaction when the commit succeeded and as `before` when it raised.
Committed(before, after, committed) == IF committed THEN after ELSE before

\* complete_upload, lines 254-263: UPDATE files SET current_version_id,
\* size_bytes; commit: the version row and the new file row become visible
\* together, or the commit raises and neither does; then the audit write: a
\* failed one raises, a successful one leads to the metadata query.
CompleteCommit(r, committed, ok) ==
  /\ reqs[r].pc = "cu_update"
  /\ ~committed => ok
  /\ LET q == reqs[r]
         ver == PendingVersion(q)
         old == FileRow(q.fid)
         new == Pointed(old, ver.id, q.size_bytes)
     IN  /\ versions' = Kept(versions, Committed(versions, Appended(versions, ver), committed), ok)
         /\ files' = Kept(files, Committed(files, (files \ {old}) \cup {new}, committed), ok)
         /\ reqs' = [reqs EXCEPT ![r] =
              IF ~committed THEN Return(q, 500, Detail("commit"))
              ELSE IF ok THEN AuditWrite([IdleReq EXCEPT !.op = q.op, !.user = q.user,
                                                         !.fid = q.fid, !.lid = ver.id,
                                                         !.pc = "cu_meta"],
                                         ok, "file.upload.complete", ver.id)
              ELSE Return(q, 500, Detail("audit"))]
  /\ UNCHANGED <<now, locks, nextFileId, nextVersionId, nextLockId, nextUploadId>>

\* complete_upload, line 266: return await file_metadata(file_id, db, user).
CompleteMetadata(r) ==
  /\ reqs[r].pc = "cu_meta"
  /\ LET q == reqs[r] IN
       reqs' = [reqs EXCEPT ![r] =
         IF FileExists(q.fid) THEN Return(q, 200, FileMetadataOut(FileRow(q.fid)))
         ELSE Return(q, 404, Detail("File not found"))]
  /\ UNCHANGED <<now, store>>

\* ------------------------------------------------------------------- reads
\* FileVersionOut(**r): the columns list_versions returns of a version row.
FileVersionOut(v) ==
  [id |-> v.id, version_no |-> v.version_no, size_bytes |-> v.size_bytes,
   created_by |-> v.created_by]

\* ORDER BY version_no DESC over `rows`: every sequence of all the rows in
\* which the version numbers do not increase (rows of one number in any order).
OrderedDesc(rows) ==
  {sq \in [1..Cardinality(rows) -> rows] :
     /\ \A i, j \in 1..Cardinality(rows) : i # j => sq[i] # sq[j]
     /\ \A i, j \in 1..Cardinality(rows) : i < j => sq[i].version_no >= sq[j].version_no}

\* list_versions, lines 267-276: one SELECT; a file without versions, or no
\* file at all, gives the empty list.
ListVersions(r, u, f) ==
  /\ Free(r)
  /\ \E sq \in OrderedDesc(FileVersions(f)) :
       reqs' = [reqs EXCEPT ![r] =
         Return([Begin(r, "list_versions", u) EXCEPT !.fid = f], 200,
                [rows |-> [i \in DOMAIN sq |-> FileVersionOut(sq[i])]])]
  /\ UNCHANGED <<now, store>>

\* file_metadata, lines 198-210, as a request of its own.
FileMetadata(r, u, f) ==
  /\ Free(r)
  /\ LET q == [Begin(r, "file_metadata", u) EXCEPT !.fid = f] IN
       reqs' = [reqs EXCEPT ![r] =
         IF FileExists(f) THEN Return(q, 200, FileMetadataOut(FileRow(f)))
         ELSE Return(q, 404, Detail("File not found"))]
  /\ UNCHANGED <<now, store>>

\* Mutant of CurrentVersion: the query also asks that the file has no active
\* lock.
CurrentVersionUnlocked(f) ==
  {v \in versions : /\ \E x \in files : x.id = f /\ v.id = x.current_version_id
                    /\ ActiveLocks(f) = {}}

\* presign_download and download_file, lines 303-308 and 326-331: files JOIN
\* file_versions on the current-version pointer.
CurrentVersion(f) ==
  {v \in versions : \E x \in files : x.id = f /\ v.id = x.current_version_id}

\* presign_get, s3.py lines 41-58: the URL is signed locally and names the key.
PresignGet(k) == [url |-> k]

\* presign_download, lines 301-321.
PresignDownload(r, u, f) ==
  /\ Free(r)
  /\ LET q == [Begin(r, "presign_download", u) EXCEPT !.fid = f] IN
       reqs' = [reqs EXCEPT ![r] =
         IF CurrentVersion(f) = {} THEN Return(q, 404, Detail("File has no version yet"))
         ELSE Return(q, 200, PresignGet((CHOOSE v \in CurrentVersion(f) : TRUE).object_key))]
  /\ UNCHANGED <<now, store>>

\* Mutant of VersionOfFile: the JOIN without v.file_id = f.id.
VersionOfAnyFile(f, vid) == {v \in versions : v.id = vid /\ FileExists(f)}

\* presign_download_version, lines 281-286: files JOIN file_versions ON v.id =
\* :vid AND v.file_id = f.id WHERE f.id = :fid.
VersionOfFile(f, vid) == {v \in versions : v.id = vid /\ v.file_id = f /\ FileExists(f)}

\* presign_download_version, lines 279-299.
PresignDownloadVersion(r, u, f, vid) ==
  /\ Free(r)
  /\ LET q == [Begin(r, "presign_download_version", u) EXCEPT !.fid = f, !.lid = vid] IN
       reqs' = [reqs EXCEPT ![r] =
         IF VersionOfFile(f, vid) = {} THEN Return(q, 404, Detail("Version not found"))
         ELSE Return(q, 200, PresignGet((CHOOSE v \in VersionOfFile(f, vid) : TRUE).object_key))]
  /\ UNCHANGED <<now, store>>

\* download_file, lines 324-336: the same query, answered with a redirect.
DownloadFile(r, u, f) ==
  /\ Free(r)
  /\ LET q == [Begin(r, "download_file", u) EXCEPT !.fid = f] IN
       reqs' = [reqs EXCEPT ![r] =
         IF CurrentVersion(f) = {} THEN Return(q, 404, Detail("File has no version yet"))
         ELSE Return(q, 302, PresignGet((CHOOSE v \in CurrentVersion(f) : TRUE).object_key))]
  /\ UNCHANGED <<now, store>>

\* ----------------------------------------------------------- upload broker
\* initiate_upload, lines 212-224: ensure_bucket() raises when the blob
\* service cannot be reached (s3.py lines 23-28: head_bucket, then
\* create_bucket); then the object key is made up, the URL is signed locally
\* and the audit row is written.  No table but audit_log is touched.
InitiateUpload(r, u, f, reachable, ok) ==
  /\ Free(r)
  /\ LET q == [Begin(r, "initiate_upload", u) EXCEPT !.fid = f] IN
       IF ~reachable
         THEN /\ ok
              /\ reqs' = [reqs EXCEPT ![r] = Return(q, 500, Detail("blob"))]
              /\ UNCHANGED nextUploadId
         ELSE /\ nextUploadId <= MaxUploads
              /\ nextUploadId' = nextUploadId + 1
              /\ reqs' = [reqs EXCEPT ![r] =
                   Audited(AuditWrite(q, ok, "file.upload.initiate", f), ok,
                           [object_key |-> ObjectKey(f, nextUploadId)])]
  /\ UNCHANGED <<now, files, versions, locks, nextFileId, nextVersionId, nextLockId>>

\* ------------------------------------------------------------ client helper
\* tools/open_helper.py, _watch_and_upload: the helper watches the local copy
\* of one file and uploads it when it has changed.  It makes its requests one
\* at a time, as the user of its token.
HelperSlot == "r1"
HelperFile == 1
\* The sizes the local copy may have (os.path.getsize, line 83).
HelperSizes == {0, 100}
\* The complete call of the helper carries no sha256 (line 99).
NoHash == ""

\* The helper is at `pc` and nowhere else afterwards.
HelperAt(pc) == [helper EXCEPT !.pc = pc]

\* _watch_and_upload, lines 55-83: the loop finds the local copy changed
\* (a new mtime, stable, and a new hash) and takes its size.
HelperDetect(sz) ==
  /\ helper.pc = "watch"
  /\ helper' = [helper EXCEPT !.pc = "initiate", !.size_bytes = sz]
  /\ UNCHANGED <<now, store, reqs>>

\* _watch_and_upload, lines 59-60 and 69-70: the local copy is gone, the
\* helper returns.
HelperGone ==
  /\ helper.pc = "watch"
  /\ helper' = HelperAt("returned")
  /\ UNCHANGED <<now, store, reqs>>

\* _watch_and_upload, lines 86-91 and 103-104: the initiate call.  urlopen
\* raises when the API cannot be reached (~up) and when it answers with an
\* error status; the except clause then ends the attempt.
HelperInitiate(up, reachable, ok) ==
  /\ helper.pc = "initiate"
  /\ IF up
       THEN /\ InitiateUpload(HelperSlot, UserOf(HelperSlot), HelperFile, reachable, ok)
            /\ helper' = IF reqs'[HelperSlot].status = 200
                           THEN [helper EXCEPT !.pc = "put",
                                               !.init = reqs'[HelperSlot].out.object_key]
                           ELSE HelperAt("watch")
       ELSE /\ reachable /\ ok
            /\ helper' = HelperAt("watch")
            /\ UNCHANGED <<now, store, reqs>>

\* Mutant of AfterPut: a PUT that failed is taken for done.
AfterPutAnyway(h, ok) ==
  IF ok THEN [h EXCEPT !.pc = "complete", !.put = h.put \cup {h.init}]
  ELSE [h EXCEPT !.pc = "complete"]

\* _watch_and_upload, lines 93 and 103-104: _http_put returns when the blob
\* service has stored the bytes under the key of init["url"], and raises
\* otherwise, which ends the attempt.
AfterPut(h, ok) ==
  IF ok THEN [h EXCEPT !.pc = "complete", !.put = h.put \cup {h.init}]
  ELSE [h EXCEPT !.pc = "watch"]

\* _watch_and_upload, line 93: the PUT of the bytes to the signed URL.
HelperPut(ok) ==
  /\ helper.pc = "put"
  /\ helper' = AfterPut(helper, ok)
  /\ UNCHANGED <<now, store, reqs>>

\* _watch_and_upload, lines 95-100: the complete call, with the object key of
\* init and the size taken before; the handler starts, or the API cannot be
\* reached (~up).
HelperComplete(up) ==
  /\ helper.pc = "complete"
  /\ IF up
       THEN /\ CompleteSelect(HelperSlot, UserOf(HelperSlot), HelperFile, helper.init,
                              helper.size_bytes, NoHash, MaxVersions)
            /\ helper' = HelperAt("wait")
       ELSE /\ helper' = HelperAt("watch")
            /\ UNCHANGED <<now, store, reqs>>

\* _watch_and_upload, lines 100-104: the complete call has returned or raised;
\* the helper prints the outcome and goes on watching.
HelperResult ==
  /\ helper.pc = "wait"
  /\ reqs[HelperSlot].pc = "done"
  /\ helper' = HelperAt("watch")
  /\ UNCHANGED <<now, store, reqs>>

\* ------------------------------------------------------------ specification
Tags == {"c1", "c2"}

\* The requests below are those of the clients of the slots `rs`; `fail` says
\* that the audit write of the request raises, and `lost` that the commit of
\* its transaction does, and `failed` are the objects that the blob service
\* fails to remove.  A handler that returns before its audit write takes
\* `ok` for granted, so that such a request is counted once.

\* The requests for a lock, for files drawn from `fids` and client tags
\* drawn from `tags`.
AcquireRequests(rs, fids, tags) ==
  /\ \/ \E r \in rs, f \in fids, c \in tags : AcquireSelect(r, UserOf(r), f, c)
     \/ \E r \in rs : AcquireExpire(r)
     \/ \E r \in rs, fail \in BOOLEAN : AcquireInsert(r, ~fail)
  /\ UNCHANGED helper

HeartbeatRequests(rs) ==
  /\ \E r \in rs, l \in LockIds : Heartbeat(r, UserOf(r), l)
  /\ UNCHANGED helper

ReleaseRequests(rs) ==
  /\ \E r \in rs, l \in LockIds, fail \in BOOLEAN : Release(r, UserOf(r), l, ~fail)
  /\ UNCHANGED helper

CreateRequests(rs, fids) ==
  /\ \E r \in rs, id \in fids, n \in CreateNames, fail \in BOOLEAN :
       CreateFile(r, UserOf(r), id, n, ~fail)
  /\ UNCHANGED helper

RenameRequests(rs, fids) ==
  /\ \/ \E r \in rs, f \in fids, n \in RenameNames : RenameGuard(r, UserOf(r), f, n)
     \/ \E r \in rs : RenameSelect(r)
     \/ \E r \in rs, fail \in BOOLEAN : RenameUpdate(r, ~fail)
  /\ UNCHANGED helper

DeleteRequests(rs, fids) ==
  /\ \/ \E r \in rs, f \in fids : DeleteGuard(r, UserOf(r), f)
     \/ \E r \in rs : DeleteSelect(r)
     \/ \E r \in rs : DeleteKeys(r)
     \/ \E r \in rs, fail \in BOOLEAN : \E failed \in SUBSET reqs[r].keys :
          DeleteCommit(r, ~fail, failed)
  /\ UNCHANGED helper

\* The statements of the upload commits under way.
CompleteSteps(rs) ==
  /\ \/ \E r \in rs : CompleteInsert(r)
     \/ \E r \in rs, lost \in BOOLEAN, fail \in BOOLEAN : CompleteCommit(r, ~lost, ~fail)
     \/ \E r \in rs : CompleteMetadata(r)
  /\ UNCHANGED helper

\* The upload commits, for object keys and sizes drawn from `keys` and
\* `sizes`, as long as there are fewer than `cap` version rows.
CompleteRequests(rs, fids, keys, sizes, cap) ==
  \/ /\ \E r \in rs, f \in fids, k \in keys, sz \in sizes :
          CompleteSelect(r, UserOf(r), f, k, sz, HashOf(r), cap)
     /\ UNCHANGED helper
  \/ CompleteSteps(rs)

\* The reads of the files drawn from `fids`.
ReadRequests(rs, fids) ==
  /\ \/ \E r \in rs, f \in fids : ListVersions(r, UserOf(r), f)
     \/ \E r \in rs, f \in fids : FileMetadata(r, UserOf(r), f)
     \/ \E r \in rs, f \in fids : PresignDownload(r, UserOf(r), f)
     \/ \E r \in rs, f \in fids : DownloadFile(r, UserOf(r), f)
  /\ UNCHANGED helper

\* The version ids a request may name: those given so far and one more.
VersionIds == 1..(MaxVersions + 1)

\* The requests for the download URL of a version or of the current version.
PresignRequests(rs, fids) ==
  /\ \/ \E r \in rs, f \in fids, vid \in VersionIds :
          PresignDownloadVersion(r, UserOf(r), f, vid)
     \/ \E r \in rs, f \in fids : PresignDownload(r, UserOf(r), f)
  /\ UNCHANGED helper

\* `down`: the blob service cannot be reached.
InitiateRequests(rs, fids) ==
  /\ \E r \in rs, f \in fids, down \in BOOLEAN, fail \in BOOLEAN :
       InitiateUpload(r, UserOf(r), f, ~down, ~fail)
  /\ UNCHANGED helper

Next ==
  \/ Tick
  \/ CreateRequests(Slots, FileIds)
  \/ AcquireRequests(Slots, FileIds, Tags)
  \/ HeartbeatRequests(Slots)
  \/ ReleaseRequests(Slots)
  \/ RenameRequests(Slots, FileIds)
  \/ DeleteRequests(Slots, FileIds)
  \/ InitiateRequests(Slots, FileIds)
  \/ CompleteRequests(Slots, FileIds, ObjectKeys, Sizes, MaxVersions)
  \/ ReadRequests(Slots, FileIds)
  \/ PresignRequests(Slots, FileIds)
  \/ \E sz \in HelperSizes : HelperDetect(sz)
  \/ HelperGone
  \/ \E down \in BOOLEAN, nostore \in BOOLEAN, fail \in BOOLEAN :
       HelperInitiate(~down, ~nostore, ~fail)
  \/ \E fail \in BOOLEAN : HelperPut(~fail)
  \/ \E down \in BOOLEAN : HelperComplete(~down)
  \/ HelperResult

Spec == Init /\ [][Next]_vars

\* The lock manager alone, with the clock and the one file its locks are on.
NextLocks ==
  \/ Tick
  \/ CreateRequests(Slots, {1})
  \/ AcquireRequests(Slots, {1}, {"c1"})
  \/ HeartbeatRequests(Slots)
  \/ ReleaseRequests(Slots)

SpecLocks == Init /\ [][NextLocks]_vars

\* Locks taken and left to expire, and the operations the conflict guard gates.
NextGuard ==
  \/ Tick
  \/ CreateRequests(Slots, {1})
  \/ AcquireRequests(Slots, {1}, {"c1"})
  \/ RenameRequests(Slots, {1})
  \/ DeleteRequests(Slots, {1})

SpecGuard == Init /\ [][NextGuard]_vars

\* Locks taken and left to expire, and the upload commit.
NextUpload ==
  \/ Tick
  \/ CreateRequests(Slots, {1})
  \/ AcquireRequests(Slots, {1}, {"c1"})
  \/ CompleteRequests(Slots, {1}, {ObjectKey(1, 1)}, {100}, MaxVersions)

SpecUpload == Init /\ [][NextUpload]_vars

\* The version chain of one file under concurrent clients: uploads of any
\* declared size, renames, deletes and the reads.
NextVersions ==
  \/ CreateRequests(Slots, {1})
  \/ CompleteRequests(Slots, {1}, {ObjectKey(1, 1)}, Sizes, MaxVersions)
  \/ RenameRequests(Slots, {1})
  \/ DeleteRequests(Slots, {1})
  \/ ReadRequests(Slots, {1})

SpecVersions == Init /\ [][NextVersions]_vars

\* The same with the uploads of one client only, so that no two complete-upload
\* calls overlap; the other client renames, deletes and reads meanwhile.
NextSequential ==
  \/ CreateRequests(Slots, {1})
  \/ CompleteRequests({"r1"}, {1}, {ObjectKey(1, 1)}, Sizes, MaxVersions)
  \/ RenameRequests(Slots, {1})
  \/ DeleteRequests(Slots, {1})
  \/ ReadRequests(Slots, {1})

SpecSequential == Init /\ [][NextSequential]_vars

\* The uploads of both clients to one file and nothing else, over one more
\* version row than elsewhere.
NextRace ==
  \/ CreateRequests({"r1"}, {1})
  \/ CompleteRequests(Slots, {1}, {ObjectKey(1, 1)}, {100}, MaxVersions + 1)

SpecRace == Init /\ [][NextRace]_vars

\* The object keys issued so far.
IssuedKeys == {k \in ObjectKeys : k.upid < nextUploadId}

\* The upload cycle of one file: both clients ask for keys; one client commits
\* uploads under the keys issued so far (or never does), the other takes locks.
NextBroker ==
  \/ Tick
  \/ CreateRequests({"r1"}, {1})
  \/ AcquireRequests({"r2"}, {1}, {"c1"})
  \/ InitiateRequests(Slots, {1})
  \/ CompleteRequests({"r1"}, {1}, IssuedKeys, {100}, MaxVersions)

SpecBroker == Init /\ [][NextBroker]_vars

\* The reads of both clients, of a file that one client uploads to and the
\* other locks.
NextRead ==
  \/ Tick
  \/ CreateRequests({"r1"}, {1})
  \/ CompleteRequests({"r1"}, {1}, {ObjectKey(1, 1)}, {100}, MaxVersions)
  \/ AcquireRequests({"r2"}, {1}, {"c1"})
  \/ ReadRequests(Slots, {1})

SpecRead == Init /\ [][NextRead]_vars

\* Two files that one client uploads to, each under its own object key, and
\* that the other deletes, and the download URLs both clients ask for.
NextPresign ==
  \/ CreateRequests({"r1"}, FileIds)
  \/ \E f \in FileIds : CompleteRequests({"r1"}, {f}, {ObjectKey(f, 1)}, {100}, MaxVersions)
  \/ DeleteRequests({"r2"}, FileIds)
  \/ PresignRequests(Slots, FileIds)

SpecPresign == Init /\ [][NextPresign]_vars

\* One client alone with the clock: every operation that writes, one request
\* at a time.
NextSolo ==
  \/ Tick
  \/ CreateRequests({"r1"}, {1})
  \/ AcquireRequests({"r1"}, {1}, {"c1"})
  \/ HeartbeatRequests({"r1"})
  \/ ReleaseRequests({"r1"})
  \/ RenameRequests({"r1"}, {1})
  \/ DeleteRequests({"r1"}, {1})
  \/ CompleteRequests({"r1"}, {1}, {ObjectKey(1, 1)}, {0, 100}, MaxVersions)

SpecSolo == Init /\ [][NextSolo]_vars

\* Every operation that writes a lock row: both clients ask for the lock, the
\* first one heartbeats and releases, the second one renames and deletes.
NextKeeper ==
  \/ Tick
  \/ CreateRequests({"r1"}, {1})
  \/ AcquireRequests(Slots, {1}, {"c1"})
  \/ HeartbeatRequests({"r1"})
  \/ ReleaseRequests({"r1"})
  \/ RenameRequests({"r2"}, {1})
  \/ DeleteRequests({"r2"}, {1})

SpecKeeper == Init /\ [][NextKeeper]_vars

\* The sessions of the clients: locks asked for under either client tag, and
\* released by the first client.
NextSessions ==
  \/ Tick
  \/ CreateRequests({"r1"}, {1})
  \/ AcquireRequests(Slots, {1}, Tags)
  \/ ReleaseRequests({"r1"})

SpecSessions == Init /\ [][NextSessions]_vars

\* The helper of one client and the handlers of its requests, while another
\* client creates, locks and deletes the file.
NextHelper ==
  \/ \E sz \in HelperSizes : HelperDetect(sz)
  \/ HelperGone
  \/ \E down \in BOOLEAN, nostore \in BOOLEAN, fail \in BOOLEAN :
       HelperInitiate(~down, ~nostore, ~fail)
  \/ \E fail \in BOOLEAN : HelperPut(~fail)
  \/ \E down \in BOOLEAN : HelperComplete(~down)
  \/ HelperResult
  \/ CompleteSteps({HelperSlot})
  \/ CreateRequests({"r2"}, {HelperFile})
  \/ AcquireRequests({"r2"}, {HelperFile}, {"c1"})
  \/ DeleteRequests({"r2"}, {HelperFile})

SpecHelper == Init /\ [][NextHelper]_vars

\* ------------------------------------------------------------------ claims
\* The lock rows of a file that are active and have not expired.
LiveLocks(f) == {l \in ActiveLocks(f) : l.expires_at > now}

\* l is the file's active lock: its one active row.
SoleLock(f, l) == ActiveLocks(f) = {l}

\* This step is the first statement of a handler `op` in slot r.
StartsOp(r, op) == Free(r) /\ reqs'[r] # reqs[r] /\ reqs'[r].op = op

\* C1: for every file, at most one lock row is active and unexpired, in every
\* reachable store state, whatever the interleaving of the requests.
C1_AtMostOneLiveLock == \A f \in FileIds : Cardinality(LiveLocks(f)) <= 1

\* C2: two concurrent acquire calls of two holders for one file never both
\* succeed: no two finished acquire calls have each inserted a lock row for the
\* same file such that both rows are live at once.
C2_NeverTwoSuccesses ==
  \A r, s \in Slots :
    ~ /\ r # s
      /\ reqs[r].op = "acquire" /\ reqs[s].op = "acquire"
      /\ reqs[r].pc = "done" /\ reqs[s].pc = "done"
      /\ reqs[r].status = 200 /\ reqs[s].status = 200
      /\ reqs[r].fid = reqs[s].fid
      /\ reqs[r].user # reqs[s].user
      /\ \E l, m \in LiveLocks(reqs[r].fid) :
           l.id = reqs[r].lid /\ m.id = reqs[s].lid /\ l.id # m.id

\* C3: complete-upload of a file whose active lock is unexpired and held by
\* another actor is rejected with a Conflict and writes nothing.
C3_CompleteUploadGated ==
  [][\A r \in Slots : \A l \in locks :
       (/\ StartsOp(r, "complete_upload")
        /\ SoleLock(reqs'[r].fid, l)
        /\ l.expires_at > now
        /\ l.locked_by # reqs'[r].user)
       => /\ reqs'[r].pc = "done"
          /\ reqs'[r].status = 409
          /\ versions' = versions
          /\ files' = files]_vars

\* C4: acquire by the holder of the file's active, unexpired lock returns that
\* lock and changes no lock row: same id, same expires_at, no new row.  As the
\* store is unchanged, the same holds of every repetition of the call.
C4_AcquireIdempotent ==
  [][\A r \in Slots : \A l \in locks :
       (/\ StartsOp(r, "acquire")
        /\ SoleLock(reqs'[r].fid, l)
        /\ l.expires_at > now
        /\ l.locked_by = reqs'[r].user)
       => /\ reqs'[r].pc = "done"
          /\ reqs'[r].status = 200
          /\ reqs'[r].out = LockOut(l)
          /\ locks' = locks
          /\ nextLockId' = nextLockId]_vars

\* A finished acquire that returned the caller's existing lock, after the
\* clock has moved on from the time that lock was taken; the row is unchanged.
C4_Witness ==
  \E r \in Slots : \E l \in locks :
    /\ reqs[r].op = "acquire" /\ reqs[r].pc = "done" /\ reqs[r].status = 200
    /\ reqs[r].lid = None /\ reqs[r].existing = l.id
    /\ reqs[r].out = LockOut(l)
    /\ l.locked_by = reqs[r].user /\ l.active
    /\ l.expires_at = l.locked_at + LEASE_MINUTES
    /\ now > l.locked_at /\ now < l.expires_at
    /\ Cardinality(locks) = 1

\* C5: acquire of a file whose active lock is unexpired and held by another
\* actor fails with a Conflict carrying that lock's holder and expires_at, and
\* changes no lock row.
C5_AcquireConflict ==
  [][\A r \in Slots : \A l \in locks :
       (/\ StartsOp(r, "acquire")
        /\ SoleLock(reqs'[r].fid, l)
        /\ l.expires_at > now
        /\ l.locked_by # reqs'[r].user)
       => /\ reqs'[r].pc = "done"
          /\ reqs'[r].status = 409
          /\ reqs'[r].out = Locked(l)
          /\ locks' = locks
          /\ nextLockId' = nextLockId]_vars

\* A finished acquire that got the Conflict of a live lock of somebody else.
C5_Witness ==
  \E r \in Slots : \E l \in locks :
    /\ reqs[r].op = "acquire" /\ reqs[r].pc = "done" /\ reqs[r].status = 409
    /\ reqs[r].out = Locked(l)
    /\ l \in LiveLocks(reqs[r].fid) /\ l.locked_by # reqs[r].user
    /\ Cardinality(locks) = 1

\* C6: when the file's active lock has expired (now >= expires_at), acquire by
\* any actor goes on to take the lock over: the stale row is made inactive, a
\* new active row held by the caller with expires_at = now + lease is inserted
\* and returned (the response is an error only when the audit write raised).
C6_ExpiryFrees ==
  [][\A r \in Slots :
       /\ \A l \in locks :
            (StartsOp(r, "acquire") /\ SoleLock(reqs'[r].fid, l) /\ l.expires_at <= now)
            => /\ reqs'[r].pc = "acq_expire"
               /\ reqs'[r].existing = l.id
               /\ reqs'[r].t = now
       /\ (reqs[r].pc = "acq_expire" /\ reqs'[r] # reqs[r])
            => /\ reqs'[r].pc = "acq_insert"
               /\ \A l \in locks' : l.id = reqs[r].existing => ~l.active
       /\ (/\ reqs[r].pc = "acq_insert" /\ reqs'[r] # reqs[r]
           /\ reqs[r].existing # None /\ FileExists(reqs[r].fid))
            => \E l \in locks' \ locks :
                 /\ locks' = locks \cup {l}
                 /\ l.file_id = reqs[r].fid /\ l.locked_by = reqs[r].user /\ l.active
                 /\ l.expires_at = reqs[r].t + LEASE_MINUTES
                 /\ \A m \in locks : m.id = reqs[r].existing => ~m.active
                 /\ reqs'[r].pc = "done"
                 /\ \/ reqs'[r].status = 200 /\ reqs'[r].out = LockOut(l)
                    \/ reqs'[r].status = 500 /\ reqs'[r].out = Detail("audit")]_vars

\* A finished acquire that took over a lock nobody released: the row it read
\* is inactive, expired when the new one was taken, and the new row is live.
C6_Witness ==
  \E r \in Slots : \E old, new \in locks :
    /\ reqs[r].op = "acquire" /\ reqs[r].pc = "done" /\ reqs[r].status = 200
    /\ reqs[r].existing = old.id /\ reqs[r].lid = new.id /\ old.id # new.id
    /\ ~old.active /\ old.file_id = new.file_id
    /\ old.locked_by # new.locked_by
    /\ new.locked_by = reqs[r].user /\ new.active
    /\ old.expires_at <= new.expires_at - LEASE_MINUTES
    /\ reqs[r].out = LockOut(new)
    /\ new \in LiveLocks(new.file_id)

\* C7: heartbeat by the holder of a lock whose expiry has passed (now >=
\* expires_at) fails with NotFound and leaves the lock rows unchanged, although
\* the row is still marked active.
C7_HeartbeatDeadLock ==
  [][\A r \in Slots : \A l \in locks :
       (/\ StartsOp(r, "heartbeat")
        /\ l.id = reqs'[r].lid /\ l.locked_by = reqs'[r].user
        /\ l.active /\ l.expires_at <= now)
       => /\ reqs'[r].status = 404
          /\ locks' = locks]_vars

\* C8: heartbeat by an actor who is not the lock's holder returns NotFound and
\* changes no lock row.
C8_HeartbeatNonHolder ==
  [][\A r \in Slots : \A l \in locks :
       (/\ StartsOp(r, "heartbeat")
        /\ l.id = reqs'[r].lid /\ l.locked_by # reqs'[r].user)
       => /\ reqs'[r].pc = "done"
          /\ reqs'[r].status = 404
          /\ reqs'[r].out = Detail("Lock not found")
          /\ locks' = locks]_vars

\* A finished heartbeat of a non-holder on a live lock: 404, the row as it was
\* taken.
C8_Witness ==
  \E r \in Slots : \E l \in locks :
    /\ reqs[r].op = "heartbeat" /\ reqs[r].pc = "done" /\ reqs[r].status = 404
    /\ l.id = reqs[r].lid /\ l.locked_by # reqs[r].user
    /\ l \in LiveLocks(l.file_id)
    /\ now > l.locked_at /\ l.expires_at = l.locked_at + LEASE_MINUTES

\* C9: release makes exactly the named row inactive, and only when the caller
\* holds it and it is active; otherwise (a non-holder, an inactive or unknown
\* lock, a second release) it returns NotFound and changes no lock row.
C9_ReleaseOnlyByHolder ==
  [][\A r \in Slots :
       StartsOp(r, "release") =>
         LET mine == {l \in locks : /\ l.id = reqs'[r].lid
                                    /\ l.locked_by = reqs'[r].user
                                    /\ l.active}
         IN  IF mine # {}
               THEN /\ locks' = (locks \ mine) \cup {[l EXCEPT !.active = FALSE] : l \in mine}
                    /\ reqs'[r].status # 404
               ELSE /\ reqs'[r].status = 404
                    /\ reqs'[r].out = Detail("Lock not found")
                    /\ locks' = locks]_vars

\* Both cases at once: one client's release of its own lock came back 404
\* (the row is inactive already), the other client's release of that lock
\* came back 404 as well (not the holder), and the row is intact otherwise.
C9_Witness ==
  \E r, s \in Slots : \E l \in locks :
    /\ r # s
    /\ reqs[r].op = "release" /\ reqs[r].pc = "done" /\ reqs[r].status = 404
    /\ reqs[s].op = "release" /\ reqs[s].pc = "done" /\ reqs[s].status = 404
    /\ reqs[r].lid = l.id /\ reqs[s].lid = l.id
    /\ l.locked_by = reqs[r].user /\ ~l.active
    /\ l.expires_at > now

\* C10: rename and delete are rejected by the guard, with a Conflict carrying
\* holder and expires_at and nothing written, exactly when the file's active
\* lock is unexpired and held by another actor; with no active lock, an expired
\* one or the caller's own, the handler goes on to its next statement.
C10_GuardBlocksOthersOnly ==
  [][\A r \in Slots : \A op \in {"rename", "delete"} :
       (StartsOp(r, op) /\ Cardinality(ActiveLocks(reqs'[r].fid)) <= 1)
       => LET others == {l \in LiveLocks(reqs'[r].fid) : l.locked_by # reqs'[r].user}
          IN  IF others # {}
                THEN /\ reqs'[r].pc = "done"
                     /\ reqs'[r].status = 409
                     /\ \E l \in others : reqs'[r].out = Locked(l)
                     /\ files' = files /\ versions' = versions /\ locks' = locks
                ELSE reqs'[r].pc = (IF op = "rename" THEN "ren_select" ELSE "del_select")]_vars

\* Scenario E: while u1 holds a live lock on the file, the rename of u2 was
\* rejected with the Conflict and the rename of u1 went through.
C10_Witness ==
  \E r, s \in Slots : \E l \in locks : \E f \in files :
    /\ reqs[r].op = "rename" /\ reqs[r].pc = "done" /\ reqs[r].status = 409
    /\ reqs[r].out = Locked(l)
    /\ l \in LiveLocks(f.id) /\ l.locked_by = reqs[s].user /\ l.locked_by # reqs[r].user
    /\ reqs[s].op = "rename" /\ reqs[s].pc = "done" /\ reqs[s].status = 200
    /\ reqs[s].fid = f.id /\ reqs[r].fid = f.id
    /\ reqs[s].out = FileOut(f) /\ f.name = <<"b", "pdf">>

\* The version numbers of the file f.
VersionNos(f) == {v.version_no : v \in FileVersions(f)}

\* The highest version number of the file f, 0 when it has no version.
Highest(f) ==
  IF VersionNos(f) = {} THEN 0
  ELSE CHOOSE n \in VersionNos(f) : \A m \in VersionNos(f) : m <= n

\* C11: for every file, no two version records share a version number, in
\* every reachable state, whatever the interleaving of the complete-upload
\* calls.
C11_VersionNoUnique ==
  \A v, w \in versions : (v.file_id = w.file_id /\ v.version_no = w.version_no) => v = w

\* C12: when complete-upload calls do not overlap, the version numbers of a
\* file are exactly 1..n at every moment, and a version record that becomes
\* visible carries the highest number the file had before, plus one (1 for a
\* file without versions).
C12_SequentialNumbers ==
  [][/\ \A f \in FileIds : VersionNos(f)' = 1..Cardinality(FileVersions(f)')
     /\ \A v \in versions' \ versions : v.version_no = Highest(v.file_id) + 1]_vars

\* Two uploads of one client, one after the other, are versions 1 and 2 of the
\* file, and the second call has returned the metadata of version 2.
C12_Witness ==
  \E f \in files : \E v, w \in versions :
    /\ v.file_id = f.id /\ w.file_id = f.id
    /\ v.version_no = 1 /\ w.version_no = 2 /\ v.id < w.id
    /\ reqs["r1"].op = "complete_upload" /\ reqs["r1"].pc = "done"
    /\ reqs["r1"].status = 200 /\ reqs["r1"].out.version_no = 2

\* C13: the step that makes a version record visible leaves the file row
\* pointing to that record and showing its declared size, and every other step
\* that leaves the file in place (rename, the lock operations) changes neither
\* the pointer nor the size.
C13_PointerFollowsUpload ==
  [][/\ \A v \in versions' \ versions :
          \E f \in files' : /\ f.id = v.file_id
                            /\ f.current_version_id = v.id
                            /\ f.size_bytes = v.size_bytes
     /\ \A f \in files : \A g \in files' :
          (f.id = g.id /\ FileVersions(f.id)' = FileVersions(f.id))
          => /\ g.current_version_id = f.current_version_id
             /\ g.size_bytes = f.size_bytes]_vars

\* A file whose upload of 100 bytes is its current version, renamed after
\* that upload (the rename returned the pointer and the size), with a lock on
\* it.
C13_Witness ==
  \E f \in files : \E v \in versions : \E l \in locks :
    /\ f.current_version_id = v.id /\ v.file_id = f.id
    /\ v.size_bytes = 100 /\ f.size_bytes = 100
    /\ f.name = <<"b", "pdf">>
    /\ l.file_id = f.id
    /\ reqs["r1"].op = "rename" /\ reqs["r1"].pc = "done" /\ reqs["r1"].status = 200
    /\ reqs["r1"].out = FileOut(f)

\* C14: the version record and the file row's new pointer and size become
\* visible in one step: in no state does a file that has version records show
\* a pointer (or a size) that is not that of one of them, no step adds a
\* version record without moving the pointer to it, and a complete-upload
\* whose commit failed has returned an error and left both tables as they were.
C14_AtomicVisibility ==
  [][/\ \A v \in versions' \ versions :
          \E f \in files' \ files : f.id = v.file_id /\ f.current_version_id = v.id
     /\ \A f \in files' :
          FileVersions(f.id)' # {}
          => \E v \in FileVersions(f.id)' : /\ f.current_version_id = v.id
                                            /\ f.size_bytes = v.size_bytes
     /\ \A r \in Slots :
          (reqs'[r] # reqs[r] /\ reqs'[r].out = Detail("commit"))
          => /\ reqs[r].pc = "cu_update"
             /\ reqs'[r].pc = "done" /\ reqs'[r].status = 500
             /\ versions' = versions /\ files' = files]_vars

\* The upload of r1 was lost at its commit: the call returned the error, the
\* version row it had inserted is nowhere; the upload of r2 is there, whole.
C14_Witness ==
  \E f \in files : \E v \in versions :
    /\ reqs["r1"].op = "complete_upload" /\ reqs["r1"].pc = "done"
    /\ reqs["r1"].status = 500 /\ reqs["r1"].out = Detail("commit")
    /\ reqs["r1"].lid # None /\ \A w \in versions : w.id # reqs["r1"].lid
    /\ reqs["r2"].op = "complete_upload" /\ reqs["r2"].pc = "done" /\ reqs["r2"].status = 200
    /\ versions = {v} /\ v.id = reqs["r2"].lid /\ v.created_by = "u2"
    /\ f.id = v.file_id /\ f.current_version_id = v.id /\ f.size_bytes = v.size_bytes
    /\ v.size_bytes = 100

\* The ids of the rows of a list-versions result.
ListedIds(out) == {out.rows[i].id : i \in DOMAIN out.rows}

\* C15: list-versions of a file returns the records of exactly the versions
\* of that file, ordered by version number descending, and returns the same
\* sequence as an earlier call that listed the same versions (no version was
\* written in between).
C15_ListVersionsStable ==
  [][\A r \in Slots :
       StartsOp(r, "list_versions") =>
         LET rows == reqs'[r].out.rows
             f == reqs'[r].fid
         IN  /\ reqs'[r].pc = "done" /\ reqs'[r].status = 200
             /\ {rows[i] : i \in DOMAIN rows} = {FileVersionOut(v) : v \in FileVersions(f)}
             /\ Len(rows) = Cardinality(FileVersions(f))
             /\ \A i, j \in DOMAIN rows : i < j => rows[i].version_no >= rows[j].version_no
             /\ \A s \in Slots :
                  (/\ reqs[s].op = "list_versions" /\ reqs[s].pc = "done"
                   /\ reqs[s].fid = f
                   /\ ListedIds(reqs[s].out) = {v.id : v \in FileVersions(f)})
                  => reqs'[r].out = reqs[s].out]_vars

\* C16: initiate-upload, succeeding or failing, changes no file row, no
\* version record and no lock row; a failed one has written no audit record;
\* the object key a successful one issues is referenced by no version record
\* (only a complete-upload that follows can make one).
C16_InitiateFrame ==
  [][\A r \in Slots :
       StartsOp(r, "initiate_upload") =>
         /\ reqs'[r].pc = "done"
         /\ files' = files /\ versions' = versions /\ locks' = locks
         /\ reqs'[r].status # 200 => reqs'[r].audit = {}
         /\ reqs'[r].status = 200 =>
              /\ reqs'[r].audit = {AuditRow(reqs'[r].user, "file.upload.initiate", reqs'[r].fid)}
              /\ \A v \in versions' : v.object_key # reqs'[r].out.object_key]_vars

\* The initiate of r1 failed on the blob service and wrote nothing; that of r2
\* issued a key that no version record references, while the file has a version
\* (uploaded under the key issued before) and a lock.
C16_Witness ==
  \E v \in versions : \E l \in locks :
    /\ reqs["r1"].op = "initiate_upload" /\ reqs["r1"].pc = "done"
    /\ reqs["r1"].status = 500 /\ reqs["r1"].out = Detail("blob")
    /\ reqs["r1"].audit = {}
    /\ reqs["r2"].op = "initiate_upload" /\ reqs["r2"].pc = "done" /\ reqs["r2"].status = 200
    /\ reqs["r2"].out.object_key = ObjectKey(1, 2)
    /\ v.object_key = ObjectKey(1, 1)
    /\ \A w \in versions : w.object_key # ObjectKey(1, 2)
    /\ l.file_id = v.file_id /\ l.active

\* C17: no step of a complete-upload whose declared size is zero or negative
\* adds a version record or changes a file row, and such a call on a file that
\* is there returns a ValidationError (422).
C17_NonPositiveSizeRejected ==
  [][\A r \in Slots :
       (/\ reqs'[r] # reqs[r]
        /\ reqs'[r].op = "complete_upload"
        /\ \/ StartsOp(r, "complete_upload") /\ reqs'[r].size_bytes <= 0
           \/ reqs[r].pc \in {"cu_insert", "cu_update"} /\ reqs[r].size_bytes <= 0)
       => /\ versions' = versions /\ files' = files
          /\ (FileExists(reqs'[r].fid) /\ reqs'[r].pc = "done") => reqs'[r].status = 422]_vars

\* The statement at which a handler finds out whether the file row exists.
FindsFile(q) ==
  \/ q.op = "rename" /\ q.pc = "ren_select"
  \/ q.op = "delete" /\ q.pc = "del_select"
  \/ q.op = "complete_upload" /\ q.pc = "cu_insert"

\* C18: rename, delete and complete-upload of a file id of which there is no
\* file row (for complete-upload: there has never been one) change nothing
\* with their first statement and, at the statement that looks for the row,
\* fail with NotFound and leave files, versions and locks unchanged.
C18_UnknownFileNotFound ==
  [][\A r \in Slots :
       /\ (/\ \E op \in {"rename", "delete", "complete_upload"} : StartsOp(r, op)
           /\ ~FileExists(reqs'[r].fid))
            => files' = files /\ versions' = versions /\ locks' = locks
       /\ (/\ FindsFile(reqs[r]) /\ reqs'[r] # reqs[r]
           /\ ~FileExists(reqs[r].fid)
           /\ reqs[r].op = "complete_upload" => reqs[r].fid >= nextFileId)
            => /\ reqs'[r].pc = "done"
               /\ reqs'[r].status = 404
               /\ files' = files /\ versions' = versions /\ locks' = locks]_vars

\* C19: when the audit write of acquire, release, rename, delete or
\* complete-upload raises, the caller gets the error and the change the
\* handler committed is in the store: the new lock row, the row made inactive,
\* the new name, the file row gone, the new version record and pointer.
C19_AuditFailureKeepsChange ==
  [][\A r \in Slots :
       (reqs'[r] # reqs[r] /\ reqs'[r].out = Detail("audit"))
       => LET q == reqs[r]
              p == reqs'[r]
          IN  /\ p.pc = "done" /\ p.status = 500
              /\ p.op = "acquire" =>
                   \E l \in locks' \ locks :
                     l.id = p.lid /\ l.active /\ l.locked_by = p.user /\ l.file_id = p.fid
              /\ p.op = "release" =>
                   /\ \E l \in locks : l.id = p.lid /\ l.active
                   /\ \E l \in locks' : l.id = p.lid /\ ~l.active
              /\ p.op = "rename" =>
                   \E f \in files' : f.id = p.fid /\ f.name = q.name
              /\ p.op = "delete" =>
                   FileExists(p.fid) /\ \A f \in files' : f.id # p.fid
              /\ p.op = "complete_upload" =>
                   /\ \E v \in versions' \ versions : v.id = p.lid /\ v.file_id = p.fid
                   /\ \E f \in files' : f.id = p.fid /\ f.current_version_id = p.lid]_vars

\* The audit write of a release raised: the caller got the error, the lock
\* it released is inactive; before that the file was renamed and got a version.
C19_Witness ==
  \E l \in locks : \E f \in files : \E v \in versions :
    /\ reqs["r1"].op = "release" /\ reqs["r1"].pc = "done"
    /\ reqs["r1"].status = 500 /\ reqs["r1"].out = Detail("audit")
    /\ reqs["r1"].audit = {}
    /\ l.id = reqs["r1"].lid /\ ~l.active /\ l.expires_at > now
    /\ f.id = l.file_id /\ f.name = <<"b", "pdf">>
    /\ f.current_version_id = v.id

ReadOps == {"list_versions", "file_metadata", "presign_download", "download_file"}

\* C20: a read (list-versions, metadata, presign-download, download) returns
\* at once, changes no lock row (nor any other row), and its result is what
\* the file row and the version records alone determine, so it is the same
\* for an unlocked file, the holder of its lock and anybody else.
C20_ReadersIgnoreLocks ==
  [][\A r \in Slots : \A op \in ReadOps :
       StartsOp(r, op) =>
         LET p == reqs'[r]
             row == {f \in files : f.id = p.fid}
             cur == {v \in versions : \E f \in row : v.id = f.current_version_id}
         IN  /\ p.pc = "done"
             /\ locks' = locks /\ files' = files /\ versions' = versions
             /\ op = "list_versions" =>
                  /\ p.status = 200
                  /\ ListedIds(p.out) = {v.id : v \in {w \in versions : w.file_id = p.fid}}
             /\ op = "file_metadata" =>
                  IF row = {} THEN p.status = 404
                  ELSE /\ p.status = 200
                       /\ \E f \in row : p.out.current_version_id = f.current_version_id
                       /\ \A v \in cur : /\ p.out.version_no = v.version_no
                                         /\ p.out.size_bytes = v.size_bytes
             /\ op \in {"presign_download", "download_file"} =>
                  IF cur = {} THEN p.status = 404
                  ELSE /\ p.status = (IF op = "download_file" THEN 302 ELSE 200)
                       /\ \E v \in cur : p.out = [url |-> v.object_key]]_vars

\* Both clients asked for the download URL of the file's current version
\* while u2 holds a live lock on the file: u1 and u2 got the same answer.
C20_Witness ==
  \E l \in locks : \E v \in versions :
    /\ l.active /\ l.expires_at > now /\ l.locked_by = "u2" /\ l.file_id = v.file_id
    /\ reqs["r1"].op = "presign_download" /\ reqs["r1"].pc = "done" /\ reqs["r1"].status = 200
    /\ reqs["r2"].op = "presign_download" /\ reqs["r2"].pc = "done" /\ reqs["r2"].status = 200
    /\ reqs["r1"].fid = v.file_id /\ reqs["r2"].fid = v.file_id
    /\ reqs["r1"].out = [url |-> v.object_key]
    /\ reqs["r2"].out = reqs["r1"].out

C23_NoResurrection ==
  [][\A r \in Slots : \A L1, L2 \in locks :
       (/\ StartsOp(r, "heartbeat") \/ StartsOp(r, "release")
        /\ reqs'[r].lid = L1.id /\ L1.locked_by = reqs'[r].user
        /\ L2.file_id = L1.file_id /\ L2.locked_by # L1.locked_by
        /\ L2.locked_at >= L1.expires_at)
       => /\ reqs'[r].pc = "done"
          /\ reqs'[r].status = 404
          /\ locks' = locks]_vars

\* C24: a heartbeat of an active, unexpired lock by its holder succeeds and
\* sets its expires_at to now + lease, changing nothing else; and as long as a
\* lock is active and unexpired (its holder has heartbeated in time and has not
\* released it), an acquire of the file by another actor is answered with a
\* Conflict and a rename or delete of the file by another actor is stopped by
\* the guard, with no row written.
C24_HolderKeepsLock ==
  [][\A r \in Slots : \A f \in FileIds : \A l \in LiveLocks(f) :
       /\ (/\ StartsOp(r, "heartbeat")
           /\ reqs'[r].lid = l.id /\ l.locked_by = reqs'[r].user)
          => /\ reqs'[r].pc = "done" /\ reqs'[r].status = 200
             /\ locks' = (locks \ {l}) \cup {[l EXCEPT !.expires_at = now + LEASE_MINUTES]}
             /\ reqs'[r].out = LockOut([l EXCEPT !.expires_at = now + LEASE_MINUTES])
       /\ (/\ \E op \in {"acquire", "rename", "delete"} : StartsOp(r, op)
           /\ reqs'[r].fid = f /\ l.locked_by # reqs'[r].user)
          => /\ reqs'[r].pc = "done" /\ reqs'[r].status = 409
             /\ locks' = locks /\ files' = files /\ versions' = versions]_vars

\* C25: the helper's complete-upload starts only from the point the helper
\* reaches after its initiate returned 200 and its PUT succeeded, and carries
\* the object key of that initiate; an attempt whose initiate or PUT failed
\* ends without a complete-upload call; and every version record the helper's
\* user has carries a key the helper has PUT.
C25_HelperProtocolOrder ==
  [][/\ StartsOp(HelperSlot, "complete_upload")
          => /\ helper.pc = "complete"
             /\ helper.init \in helper.put
             /\ reqs[HelperSlot].op = "initiate_upload" /\ reqs[HelperSlot].status = 200
             /\ reqs'[HelperSlot].object_key = reqs[HelperSlot].out.object_key
     /\ (helper.pc \in {"initiate", "put"} /\ helper'.pc = "watch")
          => /\ ~StartsOp(HelperSlot, "complete_upload")
             /\ versions' = versions
             /\ helper'.put = helper.put
     /\ \A v \in versions' :
          v.created_by = UserOf(HelperSlot) => v.object_key \in helper'.put]_vars

\* The first attempt of the helper failed after its key was issued, the
\* second went through: the file has one version, under the second key.
C25_Witness ==
  /\ helper.pc = "watch" /\ helper.put = {ObjectKey(HelperFile, 2)}
  /\ reqs[HelperSlot].op = "complete_upload" /\ reqs[HelperSlot].pc = "done"
  /\ reqs[HelperSlot].status = 200
  /\ \E v \in versions :
       /\ versions = {v} /\ v.object_key = ObjectKey(HelperFile, 2)
       /\ v.version_no = 1 /\ v.created_by = UserOf(HelperSlot)

\* C26: in every reachable state, the current-version pointer of a file that
\* has version records is the id of one of them, and that record carries the
\* highest version number the file has, however the complete-upload calls on
\* the file interleave.
C26_PointerIsHighest ==
  \A f \in files :
    FileVersions(f.id) # {}
    => \E v \in FileVersions(f.id) :
         v.id = f.current_version_id /\ v.version_no = Highest(f.id)

\* C27: no step changes the file or the holder of a lock row or makes an
\* inactive row active; a row appears only by the INSERT of an acquire, active
\* and under an id no row has ever had; and an acquire that returns a lock
\* without having read it as the caller's own unexpired lock has inserted the
\* row it returns.
C27_LockRowsOnlyDeactivate ==
  [][/\ \A l \in locks : \A m \in locks' :
          m.id = l.id => /\ m.file_id = l.file_id
                         /\ m.locked_by = l.locked_by
                         /\ m.client_id = l.client_id
                         /\ m.active => l.active
     /\ \A m \in locks' :
          (\A l \in locks : l.id # m.id)
          => /\ m.active /\ m.id = nextLockId /\ nextLockId' > nextLockId
             /\ \E r \in Slots : /\ reqs[r].pc = "acq_insert" /\ reqs'[r].pc = "done"
                                   /\ reqs'[r].lid = m.id /\ m.locked_by = reqs[r].user
     /\ \A r \in Slots :
          (/\ reqs'[r] # reqs[r] /\ reqs'[r].op = "acquire" /\ reqs'[r].status = 200
           /\ ~StartsOp(r, "acquire"))
          => /\ reqs'[r].out.id = nextLockId
             /\ \E m \in locks' \ locks : reqs'[r].out = LockOut(m)]_vars

\* u1 released its first lock and took the file again: the first row is
\* inactive for good, the lock u1 has now is a second row.
C27_Witness ==
  \E l, m \in locks :
    /\ l.id = 1 /\ m.id = 2 /\ l.file_id = m.file_id
    /\ l.locked_by = "u1" /\ m.locked_by = "u1"
    /\ ~l.active /\ m.active /\ l.expires_at > now
    /\ reqs["r1"].op = "acquire" /\ reqs["r1"].pc = "done" /\ reqs["r1"].status = 200
    /\ reqs["r1"].out = LockOut(m)

\* C28: acquire by the holder of the file's active, unexpired lock under a
\* client tag other than the one stored on the lock returns that lock (same
\* id, same expiry) and changes no lock row: no Conflict, no second row, the
\* stored client tag as it was.
C28_TagDoesNotSeparate ==
  [][\A r \in Slots : \A l \in locks :
       (/\ StartsOp(r, "acquire")
        /\ SoleLock(reqs'[r].fid, l)
        /\ l.expires_at > now
        /\ l.locked_by = reqs'[r].user
        /\ l.client_id # reqs'[r].client_id)
       => /\ reqs'[r].pc = "done"
          /\ reqs'[r].status = 200
          /\ reqs'[r].out = LockOut(l)
          /\ locks' = locks
          /\ nextLockId' = nextLockId]_vars

\* u1 took the lock under the tag c1 and asked for it again, later, under
\* the tag c2: the call returned the row of c1, the only row there is.
C28_Witness ==
  \E l \in locks :
    /\ locks = {l} /\ l.client_id = "c1" /\ l.locked_by = "u1"
    /\ l.active /\ l.expires_at > now /\ now > l.locked_at
    /\ reqs["r1"].op = "acquire" /\ reqs["r1"].pc = "done" /\ reqs["r1"].status = 200
    /\ reqs["r1"].client_id = "c2"
    /\ reqs["r1"].out = LockOut(l)

\* C29: presign-download of a version answers with the URL of that version's
\* object exactly when the version record named is one of the file named;
\* for a version of another file, or an id no record has, it answers NotFound
\* without a URL.  Presign-download of a file whose pointer is at no version
\* answers NotFound without a URL.  Neither writes anything.
C29_VersionUrlOwnFileOnly ==
  [][\A r \in Slots :
       /\ StartsOp(r, "presign_download_version") =>
            LET p == reqs'[r]
                own == {v \in versions : v.id = p.lid /\ v.file_id = p.fid}
            IN  /\ p.pc = "done"
                /\ files' = files /\ versions' = versions /\ locks' = locks
                /\ IF own = {}
                     THEN p.status = 404 /\ p.out = Detail("Version not found")
                     ELSE p.status = 200 /\ \E v \in own : p.out = [url |-> v.object_key]
       /\ (/\ StartsOp(r, "presign_download")
           /\ \A f \in files : \A v \in versions :
                 f.id = reqs'[r].fid => f.current_version_id # v.id)
            => /\ reqs'[r].pc = "done" /\ reqs'[r].status = 404
               /\ reqs'[r].out = Detail("File has no version yet")]_vars

\* Both clients named the one version of file 2: the one that asked for it as
\* a version of file 1 got NotFound, the one that asked for it as a version
\* of file 2 got the URL of its object.  File 1 has a version of its own.
C29_Witness ==
  \E v, w \in versions :
    /\ v.file_id = 2 /\ w.file_id = 1
    /\ reqs["r1"].op = "presign_download_version" /\ reqs["r1"].pc = "done"
    /\ reqs["r1"].fid = 1 /\ reqs["r1"].lid = v.id
    /\ reqs["r1"].status = 404 /\ reqs["r1"].out = Detail("Version not found")
    /\ reqs["r2"].op = "presign_download_version" /\ reqs["r2"].pc = "done"
    /\ reqs["r2"].fid = 2 /\ reqs["r2"].lid = v.id
    /\ reqs["r2"].status = 200 /\ reqs["r2"].out = [url |-> ObjectKey(2, 1)]

\* C30: the step with which an acquire returns an error to its caller (a
\* Conflict, a failed INSERT, a failed audit write) adds no active lock row
\* held by that caller.
C30_AcquireErrorNoChange ==
  [][\A r \in Slots :
       (/\ reqs'[r] # reqs[r]
        /\ reqs'[r].op = "acquire" /\ reqs'[r].pc = "done"
        /\ reqs'[r].status # 200)
       => \A m \in locks' \ locks : ~(m.active /\ m.locked_by = reqs'[r].user)]_vars

====
